---- MODULE Spec2Model ----
(***************************************************************************)
(* pixl-server-pool: the parent-side pool supervisor (WorkerPool), the     *)
(* per-child WorkerProxy state machine and the request / response          *)
(* correlation between them.  The child process is an environment that     *)
(* sends frames for the requests it was given, exits, or is killed.        *)
(*                                                                         *)
(* Handlers are written as operators from a world record (all the state    *)
(* of the parent process) to the world after the handler has run, so that  *)
(* a handler calling another handler is plain composition.                 *)
(***************************************************************************)
EXTENDS Integers, Sequences, FiniteSets, TLC

\* ------------------------------------------------------------------ bounds
MaxPids == 2        \* child processes ever spawned
MaxReqs == 2        \* calls of Pool.delegateRequest / delegateCustom
MaxStats == 1       \* file responses of one request that reach fs.stat

MaxBurst == 4       \* requests of a burst sent to an idle pool
MaxKids == 4        \* child processes ever spawned by a pool that gets no request
MaxMaints == 1      \* maint commands a worker got before a Pool.requestMaint call
MaxMsgs == 1        \* messages a worker got before a Pool.sendMessage call
MaxCalls == 1297    \* getUniqueID calls after the first one
MaxEnds == 2        \* req.sse.end calls per request
MaxCmds == 2        \* maint commands a child receives

Ids == 1..(IF MaxReqs > MaxBurst THEN MaxReqs ELSE MaxBurst)

\* var min_concurrent = 9999999;
InitialMinConcurrent == 9999999

S200 == "200 OK"
S429 == "429 Too Many Requests"
S500 == "500 Internal Server Error"
S503 == "503 Service Unavailable"
S504 == "504 Gateway Timeout"

\* The pool configurations explored (defaultConfig with the fields the tests set).
BaseConfig ==
    [ min_children |-> 1, max_children |-> 2,
      max_concurrent_requests |-> 0, max_requests_per_child |-> 0,
      max_concurrent_launches |-> 1, max_concurrent_maint |-> 1,
      child_headroom_pct |-> 0, child_busy_factor |-> 1,
      startup_timeout_sec |-> 0, request_timeout_sec |-> 0,
      maint_timeout_sec |-> 0, auto_maint |-> FALSE, maint_requests |-> 1 ]

\* one worker, a concurrency cap and a request timeout
ConfigCap ==
    [BaseConfig EXCEPT !.max_children = 1, !.max_concurrent_requests = 1,
                       !.request_timeout_sec = 1]

\* two workers, recycled after one request, with maintenance after each request
ConfigPair ==
    [BaseConfig EXCEPT !.min_children = 2, !.max_children = 2, !.auto_maint = TRUE,
                       !.max_requests_per_child = 1, !.maint_timeout_sec = 1]

Configs == {ConfigCap, ConfigPair}

VARIABLES
    config,               \* Pool.config (fixed after construction)
    workers,              \* Pool.workers: the pids in the pid map
    maint_roll,           \* Pool.maint_roll
    pool_active,          \* Pool.num_active_requests
    proxy,                \* every WorkerProxy ever constructed, by pid
    kind,                 \* args.cmd of each request: "request" or "custom"
    owner,                \* the proxy a request was dispatched to (0: none)
    calls,                \* the statuses each request's callback was invoked with
    stats,                \* fs.stat calls in flight, per request
    pstart,               \* Pool.startup: the async.timesLimit run
    pshut,                \* Pool.shutdown: "no", "draining", "done"
    lost,                 \* requests written to a stream that had been ended
    nextPid, nextId,
    crashed,              \* the parent died of an uncaught exception
    uid,                  \* PoolManager._uniqueIDCounter and the ids returned
    worker                \* the worker object of the child process of pid 1

vars == << config, workers, maint_roll, pool_active, proxy, kind, owner, calls,
           stats, pstart, pshut, lost, nextPid, nextId, crashed, uid, worker >>

\* The state a handler works on.  events collects what the handler emits
\* ('maint', 'restart', 'autoscale'); it is no part of the program's state.
World ==
    [ events |-> << >>, config |-> config, workers |-> workers, maint_roll |-> maint_roll,
      pool_active |-> pool_active, proxy |-> proxy, kind |-> kind,
      owner |-> owner, calls |-> calls, stats |-> stats, pstart |-> pstart,
      pshut |-> pshut, lost |-> lost, nextPid |-> nextPid, nextId |-> nextId,
      crashed |-> crashed ]

Set(w) ==
    /\ config' = w.config
    /\ workers' = w.workers
    /\ maint_roll' = w.maint_roll
    /\ pool_active' = w.pool_active
    /\ proxy' = w.proxy
    /\ kind' = w.kind
    /\ owner' = w.owner
    /\ calls' = w.calls
    /\ stats' = w.stats
    /\ pstart' = w.pstart
    /\ pshut' = w.pshut
    /\ nextPid' = w.nextPid
    /\ nextId' = w.nextId
    /\ lost' = w.lost
    /\ crashed' = w.crashed

Min(S) == CHOOSE x \in S : \A y \in S : x <= y

\* the pids of the child processes that can be spawned
Pids == DOMAIN proxy

\* ------------------------------------------------------------ PoolManager

\* Math.pow(36, 2)
CounterWrap == 36 * 36

\* Number.prototype.toString(36), as the sequence of the digits' values
RECURSIVE Base36(_)
Base36(n) == IF n < 36 THEN << n >> ELSE Append(Base36(n \div 36), n % 36)

\* Tools.zeroPad, for a string of at most len characters
RECURSIVE ZeroPad(_, _)
ZeroPad(str, len) == IF Len(str) >= len THEN str ELSE ZeroPad(<< 0 >> \o str, len)

\* a counter that wraps at 36
NextCounter_early(c) == IF c + 1 >= 36 THEN 0 ELSE c + 1

\* getUniqueID: this._uniqueIDCounter++, reset at 36^2
NextCounter(c) == IF c + 1 >= CounterWrap THEN 0 ELSE c + 1

\* getUniqueID: the id returned for a prefix, the clock and the counter
UniqueID(prefix, now, c) == prefix \o ZeroPad(Base36(now), 8) \o ZeroPad(Base36(c), 2)

\* no getUniqueID call was made yet (or none is looked at)
NoIds == [counter |-> 0, calls |-> 0, first |-> << >>, first_ms |-> 0,
          last |-> << >>, last_ms |-> 0]

\* getUniqueID(prefix) at clock value now.  first and last are the first and the
\* latest id returned, with their clock values; calls counts the calls after
\* the first.
getUniqueID(u, prefix, now) ==
    LET c == NextCounter(u.counter)
        id == UniqueID(prefix, now, c)
    IN  IF u.first = << >>
        THEN [u EXCEPT !.counter = c, !.first = id, !.first_ms = now,
                       !.last = id, !.last_ms = now]
        ELSE [u EXCEPT !.counter = c, !.last = id, !.last_ms = now,
                       !.calls = @ + 1]

\* ----------------------------------------------------------------- worker
\* worker.js, the child process.  A request the child has received: its timer,
\* the closure variable timed_out, req.sse.enabled, and what was done for it.
NoReq ==
    [ st |-> "none", cmd |-> "none", timer |-> FALSE, timed_out |-> FALSE,
      sse |-> FALSE, frames |-> 0, decs |-> 0, dones |-> 0, ends |-> 0 ]

\* the worker object when the process starts; maints are the payloads the user
\* maint hook was invoked with, each with the counter at that moment; out are
\* the frames written to the parent and not decoded by it yet (kept when piped)
NewWorker ==
    [ piped |-> FALSE, num_active_requests |-> 0, request_maint |-> "false", request_shutdown |-> FALSE,
      reqs |-> [i \in Ids |-> NoReq], maints |-> << >>, maint_cmds |-> 0,
      maint_done |-> 0, shutdown_cmds |-> 0, ended |-> FALSE, exiting |-> FALSE, exited |-> FALSE,
      out |-> << >> ]

\* this.encodeStream.write(frame)
write(k, cmd, id) ==
    IF k.ended THEN k ELSE [k EXCEPT !.out = Append(@, [cmd |-> cmd, id |-> id])]

\* worker.shutdown: the exit is delayed while requests are active; the process
\* exits from the user shutdown hook's callback, or at once
workerShutdown(k) ==
    IF k.num_active_requests # 0
    THEN [k EXCEPT !.request_shutdown = TRUE]
    ELSE [k EXCEPT !.request_shutdown = FALSE, !.ended = TRUE, !.exiting = TRUE]

\* worker.maint: the user maint hook is run unless requests are active
workerMaint(k, data) ==
    IF k.num_active_requests # 0
    THEN [k EXCEPT !.request_maint = data]
    ELSE [k EXCEPT !.request_maint = "false",
                   !.maints = Append(@, [data |-> data, active |-> k.num_active_requests])]

\* "if we're idle now, check for pending maint / shutdown requests"
idleCheck(k) ==
    IF k.num_active_requests = 0
    THEN IF k.request_shutdown THEN workerShutdown(k)
         ELSE IF k.request_maint # "false" THEN workerMaint(k, k.request_maint)
         ELSE k
    ELSE k

\* handleRequest: the counter is raised and the timeout armed for a web request
workerHandleRequest(k, id, cmd, timeout_sec) ==
    [k EXCEPT !.num_active_requests = @ + 1,
              !.reqs[id] = [NoReq EXCEPT !.st = "open", !.cmd = cmd,
                                         !.timer = (cmd = "request" /\ timeout_sec > 0)]]

\* handleRequest, the request timer
workerTimeout(k, id) ==
    idleCheck([k EXCEPT !.reqs[id].timed_out = TRUE, !.reqs[id].timer = FALSE,
                        !.reqs[id].decs = @ + 1,
                        !.num_active_requests = @ - 1])

\* handleRequest, finishResponse
finishResponse(k, id) ==
    idleCheck([write(k, "response", id) EXCEPT
                 !.reqs[id].frames = @ + 1,
                 !.reqs[id].decs = @ + 1,
                 !.num_active_requests = @ - 1])

\* req.sse.send
sseSend(k, id) ==
    [write(k, "sse", id) EXCEPT !.reqs[id].sse = TRUE]

\* req.sse.end
sseEnd(k, id) ==
    LET k1 == [k EXCEPT !.reqs[id].ends = @ + 1]
    IN  IF k.reqs[id].timed_out \/ ~k.reqs[id].sse THEN k1
        ELSE finishResponse([k1 EXCEPT !.reqs[id].timer = FALSE], id)

\* handleRequest, handleResponse: the callback given to the user handler
\* (compress_child is off)
handleResponse(k, id) ==
    LET k1 == [k EXCEPT !.reqs[id].dones = @ + 1]
    IN  IF k.reqs[id].sse THEN [sseEnd(k1, id) EXCEPT !.reqs[id].ends = k.reqs[id].ends]
        ELSE IF k.reqs[id].timed_out THEN k1
        ELSE finishResponse([k1 EXCEPT !.reqs[id].timer = FALSE], id)

\* ------------------------------------------------------------ WorkerProxy

\* new WorkerProxy(config, pool) followed by startup(callback): the child is
\* spawned and the startup timer armed.  cb names the startup callback: "pool"
\* (a launch of Pool.startup) or "none" (addWorker() without a callback).
NewProxy(cfg, cb) ==
    [ state |-> "startup", started |-> FALSE, child |-> "running",
      requests |-> {}, timers |-> {},
      num_active_requests |-> 0, num_requests_served |-> 0,
      max_requests_per_child |-> cfg.max_requests_per_child,
      last_maint |-> 0, request_maint |-> "none", request_restart |-> FALSE,
      maints |-> << >>, maint_events |-> 0, messages |-> 0,
      startup_timer |-> (cfg.startup_timeout_sec > 0),
      maint_timer |-> FALSE, kill_timer |-> FALSE, kill_armed |-> 0,
      ended |-> FALSE, maint_owed |-> 0, errored |-> FALSE,
      cb |-> cb, cb_calls |-> 0 ]

\* a pid no child was spawned for yet
NoProxy == [NewProxy(BaseConfig, "none") EXCEPT !.state = "none", !.child = "none"]

\* the caller's callback of request id is invoked with a status
Callback(w, id, status) == [w EXCEPT !.calls[id] = Append(@, status)]

\* changeState: notifyWorkerStateChange only logs
changeState(w, p, s) == [w EXCEPT !.proxy[p].state = s]

\* WorkerProxy.delegateRequest: the request is entered in the pending table, its
\* timeout armed when configured, both counters raised, the frame written.
ProxyDelegateRequest(w, p, id, k) ==
    [w EXCEPT !.proxy[p].requests = @ \cup {id},
              !.proxy[p].timers = IF w.config.request_timeout_sec > 0
                                  THEN @ \cup {id} ELSE @,
              !.proxy[p].num_active_requests = @ + 1,
              !.pool_active = @ + 1,
              !.kind[id] = k,
              !.owner[id] = p,
              !.lost = IF w.proxy[p].ended THEN @ \cup {id} ELSE @]

\* sendFileResponse, up to the fs.stat call: nothing is removed or counted yet
sendFileResponse(w, p, id) == [w EXCEPT !.stats[id] = @ + 1]

\* a handleChildResponse that forgets pool.num_active_requests--
handleChildResponse_noPoolDec(w, p, id, type, status) ==
    IF id \notin w.proxy[p].requests
    THEN w
    ELSE LET w1 == [w EXCEPT !.proxy[p].timers = @ \ {id}]
         IN  IF type = "file"
             THEN sendFileResponse(w1, p, id)
             ELSE Callback(
                    [w1 EXCEPT !.proxy[p].requests = @ \ {id},
                               !.proxy[p].num_requests_served = @ + 1,
                               !.proxy[p].num_active_requests = @ - 1],
                    id, status)

\* handleChildResponse for a response frame (cmd absent, 'response' or any cmd
\* the switch does not know, such as 'sse'): type is "file" or "other".
handleChildResponse(w, p, id, type, status) ==
    IF id \notin w.proxy[p].requests
    THEN w                                        \* "Request not found"
    ELSE LET w1 == [w EXCEPT !.proxy[p].timers = @ \ {id}]   \* clearTimeout
         IN  IF type = "file"
             THEN sendFileResponse(w1, p, id)
             ELSE Callback(
                    [w1 EXCEPT !.proxy[p].requests = @ \ {id},
                               !.proxy[p].num_requests_served = @ + 1,
                               !.proxy[p].num_active_requests = @ - 1,
                               !.pool_active = @ - 1],
                    id, status)

\* the fs.stat callback of sendFileResponse
statCallback(w, p, id, ok) ==
    LET w1 == [w EXCEPT !.stats[id] = @ - 1]
    IN  IF ok THEN handleChildResponse(w1, p, id, "stream", S200)
        ELSE Callback(w1, id, S500)

\* a handleChildTimeout that answers the caller itself and leaves the entry
handleChildTimeout_keep(w, p, id) ==
    IF id \in w.proxy[p].requests
    THEN Callback([w EXCEPT !.proxy[p].timers = @ \ {id}], id, S504)
    ELSE w

\* handleChildTimeout
handleChildTimeout(w, p, id) ==
    IF id \in w.proxy[p].requests
    THEN handleChildResponse([w EXCEPT !.proxy[p].timers = @ \ {id}],
                             p, id, "other", S504)
    ELSE w

\* abortAllRequests: the for-in loop visits the pending ids in insertion order;
\* req.args.request.url throws a TypeError for a custom request (args.request is
\* undefined), which ends the loop and the handler that called it.
RECURSIVE abortLoop(_, _, _)
abortLoop(w, p, todo) ==
    IF todo = {} THEN [w EXCEPT !.proxy[p].requests = {}]
    ELSE LET id == Min(todo)
         IN  IF w.kind[id] = "custom"
             THEN [w EXCEPT !.crashed = TRUE]
             ELSE abortLoop(handleChildResponse(w, p, id, "other", S500),
                            p, todo \ {id})

\* an abortAllRequests that only empties the table
abortAllRequests_reset(w, p) == [w EXCEPT !.proxy[p].requests = {}]

abortAllRequests(w, p) == abortLoop(w, p, w.proxy[p].requests)

\* Pool.addWorker: the proxy is constructed, its child spawned, and it is entered
\* in the pid map.
addWorker(w, cb) ==
    [w EXCEPT !.proxy[w.nextPid] = NewProxy(w.config, cb),
              !.workers = @ \cup {w.nextPid},
              !.nextPid = @ + 1]

\* the callback passed to WorkerProxy.startup.  A launch of Pool.startup is an
\* iteration of async.timesLimit: its callback starts the next launch, ends the
\* run, or, called a second time, throws "Callback was already called".
startupCallback(w, p, err) ==
    LET w1 == [w EXCEPT !.proxy[p].cb_calls = @ + 1]
        ps == w.pstart
    IN  IF w.proxy[p].cb # "pool" THEN w1
        ELSE IF w.proxy[p].cb_calls > 0 THEN [w1 EXCEPT !.crashed = TRUE]
        ELSE IF ps.phase # "running"
             THEN [w1 EXCEPT !.pstart.running = @ - 1]
        ELSE IF err
             THEN [w1 EXCEPT !.pstart = [ps EXCEPT !.phase = "failed",
                                                   !.running = @ - 1]]
        ELSE IF ps.todo > 0
             THEN addWorker([w1 EXCEPT !.pstart.todo = @ - 1], "pool")
        ELSE IF ps.running = 1
             THEN [w1 EXCEPT !.pstart = [ps EXCEPT !.phase = "done", !.running = 0]]
        ELSE [w1 EXCEPT !.pstart.running = @ - 1]

\* notifyWorkerExit
notifyWorkerExit(w, p) == [w EXCEPT !.workers = @ \ {p}]

\* the child 'exit' and 'error' handlers installed by startup()
childGone(w, p) ==
    LET w1 == changeState(w, p, "shutdown")
        w2 == abortAllRequests(w1, p)
        w3 == notifyWorkerExit(w2, p)
        w4 == [w3 EXCEPT !.proxy[p].startup_timer = FALSE,
                         !.proxy[p].kill_timer = FALSE,
                         !.proxy[p].kill_armed =
                             IF w3.proxy[p].kill_timer /\ @ > 0 THEN @ - 1 ELSE @,
                         !.proxy[p].maint_timer = FALSE]
    IN  IF w2.crashed THEN w2
        ELSE IF ~w.proxy[p].started THEN startupCallback(w4, p, TRUE)
        ELSE w4

\* WorkerProxy.shutdown
shutdown(w, p) ==
    [w EXCEPT !.proxy[p].state = "shutdown",
              !.proxy[p].ended = TRUE,
              !.proxy[p].kill_timer = TRUE,
              !.proxy[p].kill_armed = @ + 1]

\* this.emit(event, ...) of the pool, about worker p; cmd is that of 'autoscale'
emit(w, event, cmd, p) ==
    [w EXCEPT !.events = Append(@, [event |-> event, cmd |-> cmd, pid |-> p])]

\* data || true
OrTrue(data) == IF data = "undefined" THEN "true" ELSE data

\* WorkerProxy.maint: the child gets the command, with its payload, unless the
\* stream was ended
maint(w, p, data) ==
    [w EXCEPT !.proxy[p].state = "maint",
              !.proxy[p].maints = IF w.proxy[p].ended THEN @
                                  ELSE Append(@, OrTrue(data)),
              !.proxy[p].maint_owed = IF w.proxy[p].ended THEN @ ELSE @ + 1,
              !.proxy[p].maint_timer = (w.config.maint_timeout_sec > 0)]

\* the maint timer of WorkerProxy.maint
maintTimeout(w, p) == [shutdown(w, p) EXCEPT !.proxy[p].maint_timer = FALSE]

\* the decodeStream 'data' handler, for a startup_complete frame
onStartupComplete(w, p) ==
    IF ~w.proxy[p].started
    THEN startupCallback(
           [changeState(w, p, "active") EXCEPT !.proxy[p].startup_timer = FALSE,
                                               !.proxy[p].started = TRUE],
           p, FALSE)
    ELSE w

\* a maint_complete handler that leaves the maint timer armed
onMaintComplete_keepTimer(w, p) ==
    [changeState(w, p, "active") EXCEPT !.proxy[p].maint_owed = @ - 1]

\* handleChildResponse, case 'maint_complete'
onMaintComplete(w, p) ==
    [changeState(w, p, "active") EXCEPT !.proxy[p].maint_timer = FALSE,
                                        !.proxy[p].maint_owed = @ - 1]

\* --------------------------------------------------------------- WorkerPool

States == {"startup", "active", "maint", "shutdown"}

\* Pool.getStates
getStates(w) ==
    [s \in States |-> Cardinality({p \in w.workers : w.proxy[p].state = s})]

\* a 429 test with > for >=
TooManyRequests_gt(w) ==
    /\ w.config.max_concurrent_requests > 0
    /\ w.pool_active > w.config.max_concurrent_requests

\* Pool.delegateRequest, the HTTP 429 test
TooManyRequests(w) ==
    /\ w.config.max_concurrent_requests > 0
    /\ w.pool_active >= w.config.max_concurrent_requests

\* a first loop without the comparison: the load of the last active worker
MinConcurrent_last(w) ==
    LET act == {q \in w.workers : w.proxy[q].state = "active"}
    IN  IF act = {} THEN InitialMinConcurrent
        ELSE w.proxy[CHOOSE q \in act : \A r \in act : r <= q].num_active_requests

\* Pool.delegateRequest, the child picker: the first loop
MinConcurrent(w) ==
    LET loads == {w.proxy[p].num_active_requests :
                    p \in {q \in w.workers : w.proxy[q].state = "active"}}
                 \cup {InitialMinConcurrent}
    IN  Min(loads)

\* a second loop that takes every active worker
ChosenFew_anyActive(w) == {p \in w.workers : w.proxy[p].state = "active"}

\* a picker that does not look at worker.state
ChosenFew_noState(w) ==
    LET m == Min({w.proxy[q].num_active_requests : q \in w.workers}
                 \cup {InitialMinConcurrent})
    IN  {p \in w.workers : w.proxy[p].num_active_requests = m}

\* Pool.delegateRequest, the child picker: the second loop
ChosenFew(w) ==
    {p \in w.workers : /\ w.proxy[p].state = "active"
                       /\ w.proxy[p].num_active_requests = MinConcurrent(w)}

\* Pool.delegateRequest (and delegateCustom, which wraps the callback): the
\* results for a request of kind k; Tools.randArray picks any of the chosen few.
PoolDelegateRequest(w, k) ==
    LET id == w.nextId
        w1 == [w EXCEPT !.nextId = @ + 1, !.kind[id] = k]
    IN  IF TooManyRequests(w) THEN {Callback(w1, id, S429)}
        ELSE IF ChosenFew(w) = {} THEN {Callback(w1, id, S503)}
        ELSE {ProxyDelegateRequest(w1, p, id, k) : p \in ChosenFew(w)}

\* WorkerProxy.sendMessage: a 'message' frame is written to the child's stream;
\* messages counts the frames written before the stream was ended
ProxySendMessage(px) ==
    IF px.ended THEN px ELSE [px EXCEPT !.messages = @ + 1]

\* Pool.sendMessage
sendMessage(w) ==
    [w EXCEPT !.proxy = [p \in Pids |-> IF p \in w.workers
                                        THEN ProxySendMessage(w.proxy[p])
                                        ELSE w.proxy[p]]]

\* Pool.requestMaint
requestMaint(w, data) ==
    [w EXCEPT !.proxy = [p \in Pids |->
                           IF p \in w.workers
                           THEN [w.proxy[p] EXCEPT !.request_maint = OrTrue(data)]
                           ELSE w.proxy[p]]]

\* Pool.requestRestart
requestRestart(w) ==
    [w EXCEPT !.proxy = [p \in Pids |-> IF p \in w.workers
                                        THEN [w.proxy[p] EXCEPT !.request_restart = TRUE]
                                        ELSE w.proxy[p]]]

\* Pool.tick: the focus worker (0: none).  Pids are integer keys, which for-in
\* and Tools.firstKey visit in ascending order.
tickFocus(w) ==
    LET fresh == {p \in w.workers : p \notin w.maint_roll}
    IN  IF fresh # {}
        THEN [w |-> [w EXCEPT !.maint_roll = @ \cup {Min(fresh)}],
              worker |-> Min(fresh)]
        ELSE [w |-> [w EXCEPT !.maint_roll = {}],
              worker |-> IF w.workers = {} THEN 0 ELSE Min(w.workers)]

\* a maintenance block that only tests states.active > 1
tickMaint_noCap(c, p) ==
    LET px == c.w.proxy[p]
    IN  IF c.st.active > 1 /\ px.state = "active" /\ px.request_maint # "none"
        THEN [w |-> [maint([c.w EXCEPT !.proxy[p].request_maint = "none"],
                           p, px.request_maint)
                       EXCEPT !.proxy[p].maint_events = @ + 1],
              st |-> [c.st EXCEPT !.active = @ - 1, !.maint = @ + 1]]
        ELSE c

\* a maintenance block without the states.active > 1 test
tickMaint_lastOne(c, p) ==
    LET px == c.w.proxy[p]
    IN  IF /\ c.st.maint < c.w.config.max_concurrent_maint
           /\ px.state = "active" /\ px.request_maint # "none"
        THEN [w |-> [maint([c.w EXCEPT !.proxy[p].request_maint = "none"],
                           p, px.request_maint)
                       EXCEPT !.proxy[p].maint_events = @ + 1],
              st |-> [c.st EXCEPT !.active = @ - 1, !.maint = @ + 1]]
        ELSE c

\* a maintenance block that leaves the request_maint flag of the worker set
tickMaint_keepFlag(c, p) ==
    LET px == c.w.proxy[p]
    IN  IF /\ c.st.maint < c.w.config.max_concurrent_maint /\ c.st.active > 1
           /\ px.state = "active" /\ px.request_maint # "none"
        THEN [w |-> [maint(c.w, p, px.request_maint)
                       EXCEPT !.proxy[p].maint_events = @ + 1],
              st |-> [c.st EXCEPT !.active = @ - 1, !.maint = @ + 1]]
        ELSE c

\* Pool.tick: "room for maint" (maint_method 'requests')
tickMaint(c, p) ==
    LET w == c.w
        st == c.st
        px == w.proxy[p]
        room == st.maint < w.config.max_concurrent_maint /\ st.active > 1
        auto == /\ room /\ px.state = "active" /\ w.config.auto_maint
                /\ px.num_requests_served - px.last_maint >= w.config.maint_requests
        user == room /\ px.state = "active" /\ px.request_maint # "none"
        need_maint == IF user THEN px.request_maint ELSE "true"
        w1 == IF auto THEN [w EXCEPT !.proxy[p].last_maint = px.num_requests_served]
              ELSE w
        w2 == IF user THEN [w1 EXCEPT !.proxy[p].request_maint = "none"] ELSE w1
    IN  IF auto \/ user
        THEN [w |-> emit([maint(w2, p, need_maint)
                              EXCEPT !.proxy[p].maint_events = @ + 1],
                         "maint", "", p),
              st |-> [st EXCEPT !.active = @ - 1, !.maint = @ + 1]]
        ELSE [w |-> w2, st |-> st]

\* a restart block without the "room for restart" test
tickRestart_noRoom(c, p) ==
    LET px == c.w.proxy[p]
        due == /\ px.state = "active" /\ c.st.active > 1
               /\ \/ px.request_restart
                  \/ /\ px.max_requests_per_child > 0
                     /\ px.num_requests_served >= px.max_requests_per_child
    IN  IF due
        THEN [w |-> shutdown([c.w EXCEPT !.proxy[p].request_restart = FALSE], p),
              st |-> [c.st EXCEPT !.active = @ - 1, !.shutdown = @ + 1]]
        ELSE c

\* a restart block that shuts the focus worker down whenever it is flagged
tickRestart_eager(c, p) ==
    IF c.w.proxy[p].state = "active" /\ c.w.proxy[p].request_restart
    THEN [w |-> shutdown([c.w EXCEPT !.proxy[p].request_restart = FALSE], p),
          st |-> [c.st EXCEPT !.active = @ - 1, !.shutdown = @ + 1]]
    ELSE c

\* a restart block that does not look at the state of the focus worker
tickRestart_anyState(c, p) ==
    LET px == c.w.proxy[p]
    IN  IF /\ c.st.startup + c.st.shutdown < c.w.config.max_concurrent_launches
           /\ c.st.active > 1
           /\ \/ px.request_restart
              \/ /\ px.max_requests_per_child > 0
                 /\ px.num_requests_served >= px.max_requests_per_child
        THEN [w |-> emit(shutdown([c.w EXCEPT !.proxy[p].request_restart = FALSE], p),
                         "restart", "", p),
              st |-> [c.st EXCEPT !.active = @ - 1, !.shutdown = @ + 1]]
        ELSE c

\* a restart block without the end of life test
tickRestart_noRecycle(c, p) ==
    LET px == c.w.proxy[p]
    IN  IF /\ c.st.startup + c.st.shutdown < c.w.config.max_concurrent_launches
           /\ px.state = "active" /\ px.request_restart /\ c.st.active > 1
        THEN [w |-> shutdown([c.w EXCEPT !.proxy[p].request_restart = FALSE], p),
              st |-> [c.st EXCEPT !.active = @ - 1, !.shutdown = @ + 1]]
        ELSE c

\* Pool.tick: "room for restart": end of life, then rolling restart
tickRestart(c, p) ==
    LET w == c.w
        st == c.st
        px == w.proxy[p]
        room == st.startup + st.shutdown < w.config.max_concurrent_launches
        eol == /\ room /\ px.state = "active" /\ px.max_requests_per_child > 0
               /\ st.active > 1
               /\ px.num_requests_served >= px.max_requests_per_child
        c1 == IF eol
              THEN [w |-> emit(shutdown(w, p), "restart", "", p),
                    st |-> [st EXCEPT !.active = @ - 1, !.shutdown = @ + 1]]
              ELSE c
        rr == /\ room /\ c1.w.proxy[p].state = "active"
              /\ c1.w.proxy[p].request_restart /\ c1.st.active > 1
    IN  IF rr
        THEN [w |-> emit(shutdown([c1.w EXCEPT !.proxy[p].request_restart = FALSE], p),
                         "restart", "", p),
              st |-> [c1.st EXCEPT !.active = @ - 1, !.shutdown = @ + 1]]
        ELSE c1

\* an auto-scaler without the min_children floor on num_busy_adj
tickScale_noFloor(c) ==
    LET w == c.w
        act == {p \in w.workers : w.proxy[p].state = "active"}
        busy == {p \in act : w.proxy[p].num_active_requests >= w.config.child_busy_factor}
        num_busy_adj == Cardinality(busy)
                          + ((Cardinality(busy) * w.config.child_headroom_pct) \div 100)
    IN  IF /\ num_busy_adj >= c.st.startup + c.st.active
           /\ c.st.startup < w.config.max_concurrent_launches
           /\ Cardinality(w.workers) - c.st.shutdown < w.config.max_children
        THEN addWorker(w, "none")
        ELSE w

\* an auto-scaler that removes any active worker that is not counted busy
tickScale_anyKid(c) ==
    LET w == c.w  st == c.st  cfg == w.config
        act == {p \in w.workers : w.proxy[p].state = "active"}
        busy == {p \in act : w.proxy[p].num_active_requests >= cfg.child_busy_factor}
        idle_kids == act \ busy
        num_busy == Cardinality(busy)
        adj == num_busy + ((num_busy * cfg.child_headroom_pct) \div 100)
        num_busy_adj == IF adj < cfg.min_children - 1 THEN cfg.min_children - 1 ELSE adj
    IN  IF num_busy_adj >= st.startup + st.active
           /\ st.startup < cfg.max_concurrent_launches
           /\ Cardinality(w.workers) - st.shutdown < cfg.max_children
        THEN emit(addWorker(w, "none"), "autoscale", "add", w.nextPid)
        ELSE IF num_busy_adj < st.active - 1 /\ st.active > 1
                /\ Cardinality(w.workers) > cfg.min_children /\ idle_kids # {}
             THEN emit(shutdown(w, Min(idle_kids)), "autoscale", "remove", Min(idle_kids))
             ELSE w

\* an auto-scaler that waits until the busy workers outnumber the children
tickScale_late(c) ==
    LET w == c.w  st == c.st  cfg == w.config
        act == {p \in w.workers : w.proxy[p].state = "active"}
        busy == {p \in act : w.proxy[p].num_active_requests >= cfg.child_busy_factor}
        idle_kids == {p \in act \ busy : w.proxy[p].num_active_requests = 0}
        num_busy == Cardinality(busy)
        adj == num_busy + ((num_busy * cfg.child_headroom_pct) \div 100)
        num_busy_adj == IF adj < cfg.min_children - 1 THEN cfg.min_children - 1 ELSE adj
    IN  IF num_busy_adj > st.startup + st.active
           /\ st.startup < cfg.max_concurrent_launches
           /\ Cardinality(w.workers) - st.shutdown < cfg.max_children
        THEN emit(addWorker(w, "none"), "autoscale", "add", w.nextPid)
        ELSE IF num_busy_adj < st.active - 1 /\ st.active > 1
                /\ Cardinality(w.workers) > cfg.min_children /\ idle_kids # {}
             THEN emit(shutdown(w, Min(idle_kids)), "autoscale", "remove", Min(idle_kids))
             ELSE w

\* Pool.tick: auto-scaling
tickScale(c) ==
    LET w == c.w
        st == c.st
        cfg == w.config
        act == {p \in w.workers : w.proxy[p].state = "active"}
        busy == {p \in act : w.proxy[p].num_active_requests >= cfg.child_busy_factor}
        idle_kids == {p \in act \ busy : w.proxy[p].num_active_requests = 0}
        num_busy == Cardinality(busy)
        total_children == Cardinality(w.workers)
        adj == num_busy + ((num_busy * cfg.child_headroom_pct) \div 100)
        num_busy_adj == IF adj < cfg.min_children - 1 THEN cfg.min_children - 1 ELSE adj
        num_children == st.startup + st.active
        total_sans_shut == total_children - st.shutdown
    IN  IF /\ num_busy_adj >= num_children
           /\ st.startup < cfg.max_concurrent_launches
           /\ total_sans_shut < cfg.max_children
        THEN emit(addWorker(w, "none"), "autoscale", "add", w.nextPid)
        ELSE IF /\ num_busy_adj < st.active - 1
                /\ st.active > 1
                /\ total_children > cfg.min_children
                /\ idle_kids # {}
             THEN emit(shutdown(w, Min(idle_kids)), "autoscale", "remove", Min(idle_kids))
             ELSE w

\* Pool.tick, up to the end of the "found worker" block: the maintenance and
\* the recycle / rolling restart decisions on the focus worker
tickDecisions(w) ==
    LET f == tickFocus(w)
        c0 == [w |-> f.w, st |-> getStates(w)]
    IN  IF f.worker = 0 THEN c0
        ELSE CHOOSE c2 \in {tickRestart(c1, f.worker) :
                                c1 \in {tickMaint(c, f.worker) : c \in {c0}}} : TRUE

\* Pool.tick: auto-scaling works on what the decisions left
tick(w) == CHOOSE r \in {tickScale(c) : c \in {tickDecisions(w)}} : TRUE

\* Pool.startup: async.timesLimit starts the first max_concurrent_launches launches
RECURSIVE launch(_, _)
launch(w, n) == IF n = 0 THEN w ELSE launch(addWorker(w, "pool"), n - 1)

poolStartup(w) ==
    LET n == w.config.min_children
        l == w.config.max_concurrent_launches
        first == IF n < l THEN n ELSE l
    IN  IF first = 0
        THEN [w EXCEPT !.pstart = [phase |-> "done", todo |-> 0, running |-> 0]]
        ELSE [launch(w, first) EXCEPT
                !.pstart = [phase |-> "running", todo |-> n - first, running |-> first]]

\* Pool.shutdown: every worker in the map is shut down
RECURSIVE shutdownAll(_, _)
shutdownAll(w, todo) ==
    IF todo = {} THEN w ELSE shutdownAll(shutdown(w, Min(todo)), todo \ {Min(todo)})

poolShutdown(w) == [shutdownAll(w, w.workers) EXCEPT !.pshut = "draining"]

\* ------------------------------------------------------------------ actions

\* Once its child has exited and it has left the pid map, a proxy is referenced
\* only by the fs.stat callbacks and kill timers still pending: they read its
\* pending table and its child, nothing else.  The fields nobody can read any
\* more are forgotten (the pending table and the counters are kept as they are).
Forgotten(px) ==
    [px EXCEPT !.started = FALSE, !.num_requests_served = 0, !.last_maint = 0,
               !.request_maint = "none", !.request_restart = FALSE,
               !.maints = << >>, !.maint_events = 0, !.messages = 0,
               !.ended = FALSE, !.maint_owed = 0, !.errored = FALSE,
               !.kill_timer = FALSE, !.max_requests_per_child = 0]

Forget(w) ==
    [w EXCEPT !.proxy = [p \in Pids |->
        IF w.proxy[p].child = "exited" /\ p \notin w.workers /\ ~w.crashed
        THEN Forgotten(w.proxy[p]) ELSE w.proxy[p]]]

Do(w) ==
    /\ w.nextPid <= Cardinality(Pids) + 1
    /\ \E f \in {Forget(w)} : Set(f)
    /\ uid' = uid
    /\ worker' = worker

Running(p) == proxy[p].child = "running"

PoolStartup ==
    /\ ~crashed /\ pstart.phase = "init" /\ pshut = "no"
    /\ Do(poolStartup(World))

DelegateUpTo(n) ==
    /\ ~crashed /\ nextId <= n
    /\ \E k \in {"request", "custom"} : \E w \in PoolDelegateRequest(World, k) : Do(w)

Delegate == DelegateUpTo(MaxReqs)

ChildStartupComplete ==
    /\ ~crashed
    /\ \E p \in Pids : Running(p) /\ ~proxy[p].started /\ Do(onStartupComplete(World, p))

ChildMaintComplete ==
    /\ ~crashed
    /\ \E p \in Pids : Running(p) /\ proxy[p].maint_owed > 0
                        /\ Do(onMaintComplete(World, p))

\* a response frame of the child for a request it was sent, as often as it likes
ChildResponse ==
    /\ ~crashed
    /\ \E id \in Ids : \E type \in {"other", "file"} :
          /\ owner[id] # 0 /\ id \notin lost /\ Running(owner[id])
          /\ type = "file" => /\ kind[id] = "request"
                              /\ stats[id] + Len(calls[id]) < MaxStats
          /\ Do(handleChildResponse(World, owner[id], id, type, S200))

StatDone ==
    /\ ~crashed
    /\ \E id \in Ids : \E ok \in BOOLEAN :
          stats[id] > 0 /\ Do(statCallback(World, owner[id], id, ok))

RequestTimeout ==
    /\ ~crashed
    /\ \E p \in Pids : \E id \in proxy[p].timers : Do(handleChildTimeout(World, p, id))

StartupTimeout ==
    /\ ~crashed
    /\ \E p \in Pids :
          /\ proxy[p].startup_timer
          /\ Do([World EXCEPT !.proxy[p].startup_timer = FALSE,
                              !.proxy[p].child = IF @ = "running" THEN "killed" ELSE @])

MaintTimeout ==
    /\ ~crashed
    /\ \E p \in Pids : proxy[p].maint_timer /\ Do(maintTimeout(World, p))

KillTimeout ==
    /\ ~crashed
    /\ \E p \in Pids :
          /\ proxy[p].kill_armed > 0
          /\ Do([World EXCEPT !.proxy[p].kill_armed = @ - 1,
                              !.proxy[p].child = IF @ = "running" THEN "killed" ELSE @])

ChildExit ==
    /\ ~crashed
    /\ \E p \in Pids :
          /\ proxy[p].child \in {"running", "killed"}
          /\ Do(childGone([World EXCEPT !.proxy[p].child = "exited"], p))

\* the child 'error' event (the process could not be spawned, or is gone): the
\* same handler as 'exit'; no 'exit' event follows it here
ChildError ==
    /\ ~crashed
    /\ \E p \in Pids :
          /\ proxy[p].child \in {"running", "killed"}
          /\ Do(childGone([World EXCEPT !.proxy[p].errored = TRUE,
                                        !.proxy[p].child = "exited"], p))

\* the server's 'tick' event reaches the pool from the call of Pool.startup (that
\* createPool makes right after constructing it) until removePool deletes it
Tick ==
    /\ ~crashed /\ pstart.phase # "init" /\ pshut # "done"
    /\ \E w \in {tick(World)} : Do(w)

MaintData == {"undefined", "data"}

RequestMaint ==
    /\ ~crashed
    /\ \A p \in workers : Len(proxy[p].maints) < MaxMaints
    /\ \E data \in MaintData : Do(requestMaint(World, data))

RequestRestart == ~crashed /\ Do(requestRestart(World))

SendMessage ==
    /\ ~crashed
    /\ \A p \in workers : proxy[p].messages < MaxMsgs
    /\ Do(sendMessage(World))

PoolShutdown ==
    /\ ~crashed /\ pshut = "no" /\ pstart.phase # "init"
    /\ Do(poolShutdown(World))

PoolShutdownDone ==
    /\ ~crashed /\ pshut = "draining" /\ workers = {}
    /\ Do([World EXCEPT !.pshut = "done"])

Init ==
    /\ config \in Configs
    /\ workers = {}
    /\ maint_roll = {}
    /\ pool_active = 0
    /\ proxy = [p \in 1..MaxPids |-> NoProxy]
    /\ kind = [i \in Ids |-> "none"]
    /\ owner = [i \in Ids |-> 0]
    /\ calls = [i \in Ids |-> << >>]
    /\ stats = [i \in Ids |-> 0]
    /\ pstart = [phase |-> "init", todo |-> 0, running |-> 0]
    /\ pshut = "no"
    /\ lost = {}
    /\ nextPid = 1
    /\ nextId = 1
    /\ crashed = FALSE
    /\ uid = NoIds
    /\ worker = NewWorker

Next ==
    \/ PoolStartup \/ Delegate \/ ChildStartupComplete \/ ChildMaintComplete
    \/ ChildResponse \/ StatDone \/ RequestTimeout
    \/ MaintTimeout \/ KillTimeout \/ ChildExit \/ ChildError \/ Tick
    \/ PoolShutdown \/ PoolShutdownDone

Spec == Init /\ [][Next]_vars

\* A burst of requests sent to a pool of n idle active workers: the state
\* Pool.startup leaves when all its min_children = n children have started.
ConfigIdle(n) == [BaseConfig EXCEPT !.min_children = n, !.max_children = n]

InitIdle ==
    \E n \in 1..MaxPids :
        /\ config = ConfigIdle(n)
        /\ workers = 1..n
        /\ maint_roll = {}
        /\ pool_active = 0
        /\ proxy = [p \in 1..MaxPids |->
                      IF p <= n
                      THEN [NewProxy(ConfigIdle(n), "pool") EXCEPT
                              !.state = "active", !.started = TRUE, !.cb_calls = 1]
                      ELSE NoProxy]
        /\ kind = [i \in Ids |-> "none"]
        /\ owner = [i \in Ids |-> 0]
        /\ calls = [i \in Ids |-> << >>]
        /\ stats = [i \in Ids |-> 0]
        /\ pstart = [phase |-> "done", todo |-> 0, running |-> 0]
        /\ pshut = "no"
        /\ lost = {}
        /\ nextPid = n + 1
        /\ nextId = 1
        /\ crashed = FALSE
        /\ uid = NoIds
        /\ worker = NewWorker

Burst == DelegateUpTo(MaxBurst)

SpecBurst == InitIdle /\ [][Burst]_vars

\* The life of a pool that gets no request: startup, ticks, rolling restarts,
\* children that start, exit or are killed, Pool.shutdown.
ConfigDuo == [BaseConfig EXCEPT !.min_children = 2, !.max_children = 2]

ConfigTrio == [BaseConfig EXCEPT !.min_children = 3, !.max_children = 3]

InitScale ==
    /\ config \in {ConfigDuo, ConfigTrio}
    /\ workers = {}
    /\ maint_roll = {}
    /\ pool_active = 0
    /\ proxy = [p \in 1..MaxKids |-> NoProxy]
    /\ kind = [i \in Ids |-> "none"]
    /\ owner = [i \in Ids |-> 0]
    /\ calls = [i \in Ids |-> << >>]
    /\ stats = [i \in Ids |-> 0]
    /\ pstart = [phase |-> "init", todo |-> 0, running |-> 0]
    /\ pshut = "no"
    /\ lost = {}
    /\ nextPid = 1
    /\ nextId = 1
    /\ crashed = FALSE
    /\ uid = NoIds
    /\ worker = NewWorker

NextScale ==
    \/ PoolStartup \/ ChildStartupComplete \/ KillTimeout \/ ChildExit \/ Tick
    \/ RequestRestart \/ PoolShutdown \/ PoolShutdownDone

SpecScale == InitScale /\ [][NextScale]_vars

\* A pool of n active idle workers out of k pids, as Pool.startup leaves it
StartedWith(cfg, n, k, wk) ==
    /\ config = cfg
    /\ workers = 1..n
    /\ maint_roll = {}
    /\ pool_active = 0
    /\ proxy = [p \in 1..k |->
                  IF p <= n
                  THEN [NewProxy(cfg, "pool") EXCEPT
                          !.state = "active", !.started = TRUE, !.cb_calls = 1]
                  ELSE NoProxy]
    /\ kind = [i \in Ids |-> "none"]
    /\ owner = [i \in Ids |-> 0]
    /\ calls = [i \in Ids |-> << >>]
    /\ stats = [i \in Ids |-> 0]
    /\ pstart = [phase |-> "done", todo |-> 0, running |-> 0]
    /\ pshut = "no"
    /\ lost = {}
    /\ nextPid = n + 1
    /\ nextId = 1
    /\ crashed = FALSE
    /\ uid = NoIds
    /\ worker = wk

Started(cfg, n, k) == StartedWith(cfg, n, k, NewWorker)

\* Rolling maintenance of a started pool: requestMaint calls, ticks, children
\* that complete their maintenance or run into the maintenance timeout.
ConfigSweep ==
    [BaseConfig EXCEPT !.min_children = 3, !.max_children = 4, !.maint_timeout_sec = 1]

InitSweep == Started(ConfigSweep, 3, MaxKids)

NextSweep ==
    \/ RequestMaint \/ Tick \/ ChildStartupComplete \/ ChildMaintComplete
    \/ MaintTimeout \/ KillTimeout \/ ChildExit

SpecSweep == InitSweep /\ [][NextSweep]_vars

\* A started pool whose children crash, finitely often: a child exits only if the
\* pids left can still replace every worker missing afterwards.
Crash ==
    /\ ~crashed
    /\ \E p \in workers :
          /\ Running(p)
          /\ LET live == {q \in workers : proxy[q].state \in {"startup", "active"}} \ {p}
             IN  (nextPid - 1) + (config.min_children - Cardinality(live))
                   <= Cardinality(Pids)
          /\ Do(childGone([World EXCEPT !.proxy[p].child = "exited"], p))

InitHeal == \E cfg \in {ConfigDuo, ConfigTrio} : Started(cfg, cfg.min_children, MaxKids + 1)

NextHeal == Crash \/ Tick \/ ChildStartupComplete

\* the tick is an interval timer; a child that is starting and does not exit
\* sends startup_complete
SpecHeal ==
    InitHeal /\ [][NextHeal]_vars /\ WF_vars(Tick) /\ WF_vars(ChildStartupComplete)

\* removePool on a started pool: Pool.shutdown, the ticks of the server, children
\* that exit when their stream ends or when they are killed.
ChildQuit ==
    /\ ~crashed
    /\ \E p \in Pids :
          /\ proxy[p].child = "killed" \/ (Running(p) /\ proxy[p].ended)
          /\ Do(childGone([World EXCEPT !.proxy[p].child = "exited"], p))

InitDrain == \E cfg \in {ConfigDuo, ConfigTrio} : Started(cfg, cfg.min_children, MaxKids)

NextDrain ==
    \/ PoolShutdown \/ Tick \/ ChildStartupComplete \/ ChildQuit \/ KillTimeout
    \/ PoolShutdownDone

\* the tick is an interval timer and Pool.shutdown polls the pid map every 100 ms;
\* a child whose stream has ended exits, a kill timer that is armed fires, a
\* child that is starting sends startup_complete
SpecDrain ==
    /\ InitDrain /\ [][NextDrain]_vars
    /\ WF_vars(Tick) /\ WF_vars(PoolShutdownDone) /\ WF_vars(ChildQuit)
    /\ WF_vars(KillTimeout) /\ WF_vars(ChildStartupComplete)

\* A rolling restart of a started pool: one requestRestart call, ticks, children
\* that exit once shut down and replacements that start.
ConfigWide == [BaseConfig EXCEPT !.min_children = 2, !.max_children = 3]

InitRoll == \E cfg \in {ConfigDuo, ConfigWide} : Started(cfg, cfg.min_children, MaxKids)

RestartOnce ==
    /\ nextPid = config.min_children + 1
    /\ \A p \in workers : ~proxy[p].request_restart
    /\ RequestRestart

NextRoll ==
    RestartOnce \/ Tick \/ ChildStartupComplete \/ ChildQuit \/ KillTimeout

SpecRoll ==
    /\ InitRoll /\ [][NextRoll]_vars
    /\ WF_vars(Tick) /\ WF_vars(ChildQuit) /\ WF_vars(KillTimeout)
    /\ WF_vars(ChildStartupComplete)

\* A rolling maintenance of a started pool: one requestMaint call, ticks, children
\* that complete their maintenance; workers the auto-scaler adds start, workers
\* it removes exit.
ConfigTwin == [ConfigTrio EXCEPT !.max_concurrent_maint = 2]

InitMaint ==
    \E cfg \in {ConfigDuo, ConfigWide, ConfigTrio, ConfigTwin} :
        Started(cfg, cfg.min_children, MaxKids)

MaintOnce ==
    /\ nextPid = config.min_children + 1
    /\ \A p \in workers : /\ proxy[p].request_maint = "none"
                           /\ proxy[p].maints = << >>
    /\ \E data \in MaintData : Do(requestMaint(World, data))

NextMaint ==
    \/ MaintOnce \/ Tick \/ ChildMaintComplete \/ ChildStartupComplete
    \/ ChildQuit \/ KillTimeout

\* a child that was sent a maint command replies maint_complete
SpecMaint ==
    /\ InitMaint /\ [][NextMaint]_vars
    /\ WF_vars(Tick) /\ WF_vars(ChildMaintComplete) /\ WF_vars(ChildStartupComplete)
    /\ WF_vars(ChildQuit) /\ WF_vars(KillTimeout)

\* Recycling in a started pool whose workers have served requests, some of them
\* max_requests_per_child of them: ticks, children that exit once shut down and
\* replacements that start.
ConfigRecycle == [ConfigDuo EXCEPT !.max_requests_per_child = 1]

ConfigRecycleWide == [ConfigWide EXCEPT !.max_requests_per_child = 1]

InitRecycle ==
    \E cfg \in {ConfigRecycle, ConfigRecycleWide} :
    \E served \in [1..cfg.min_children -> 0..cfg.max_requests_per_child] :
        /\ config = cfg
        /\ workers = 1..cfg.min_children
        /\ maint_roll = {}
        /\ pool_active = 0
        /\ proxy = [p \in 1..MaxKids |->
                      IF p <= cfg.min_children
                      THEN [NewProxy(cfg, "pool") EXCEPT
                              !.state = "active", !.started = TRUE, !.cb_calls = 1,
                              !.num_requests_served = served[p]]
                      ELSE NoProxy]
        /\ kind = [i \in Ids |-> "none"]
        /\ owner = [i \in Ids |-> 0]
        /\ calls = [i \in Ids |-> << >>]
        /\ stats = [i \in Ids |-> 0]
        /\ pstart = [phase |-> "done", todo |-> 0, running |-> 0]
        /\ pshut = "no"
        /\ lost = {}
        /\ nextPid = cfg.min_children + 1
        /\ nextId = 1
        /\ crashed = FALSE
        /\ uid = NoIds
        /\ worker = NewWorker

NextRecycle == Tick \/ ChildStartupComplete \/ ChildQuit \/ KillTimeout

SpecRecycle ==
    /\ InitRecycle /\ [][NextRecycle]_vars
    /\ WF_vars(Tick) /\ WF_vars(ChildQuit) /\ WF_vars(KillTimeout)
    /\ WF_vars(ChildStartupComplete)

\* A pool that is asked for a rolling maintenance or restart only while exactly
\* one of its workers is active (the others are still starting, or are gone).
MaintAlone == getStates(World).active = 1 /\ RequestMaint

RestartAlone == getStates(World).active = 1 /\ RequestRestart

NextAlone ==
    \/ PoolStartup \/ ChildStartupComplete \/ Tick \/ MaintAlone \/ RestartAlone
    \/ ChildMaintComplete \/ ChildQuit \/ KillTimeout

SpecAlone == InitScale /\ [][NextAlone]_vars

\* Messages sent to a started pool during rolling maintenance, with a
\* maintenance timeout
ConfigTimed == [ConfigDuo EXCEPT !.maint_timeout_sec = 1]

InitMessage == Started(ConfigTimed, 2, MaxKids)

NextMessage ==
    \/ SendMessage \/ RequestMaint \/ Tick \/ ChildMaintComplete \/ MaintTimeout
    \/ ChildStartupComplete \/ ChildQuit \/ KillTimeout

SpecMessage == InitMessage /\ [][NextMessage]_vars

\* The request ids of a pool manager: getUniqueID('r') calls at any clock values,
\* starting from a counter the calls made before have left.  The clock values
\* have one, two and six base-36 digits.
Clocks == {35, 36, 36 * 36 * 36 * 36 * 36}

StartCounters == {0, 1, CounterWrap - 1}

InitIds ==
    /\ config = BaseConfig
    /\ workers = {}
    /\ maint_roll = {}
    /\ pool_active = 0
    /\ proxy = [p \in 1..MaxPids |-> NoProxy]
    /\ kind = [i \in Ids |-> "none"]
    /\ owner = [i \in Ids |-> 0]
    /\ calls = [i \in Ids |-> << >>]
    /\ stats = [i \in Ids |-> 0]
    /\ pstart = [phase |-> "init", todo |-> 0, running |-> 0]
    /\ pshut = "no"
    /\ lost = {}
    /\ nextPid = 1
    /\ nextId = 1
    /\ crashed = FALSE
    /\ \E c \in StartCounters : uid = [NoIds EXCEPT !.counter = c]
    /\ worker = NewWorker

GetUniqueID ==
    /\ uid.calls < MaxCalls
    /\ \E now \in Clocks : uid' = getUniqueID(uid, << "r" >>, now)
    /\ UNCHANGED << config, workers, maint_roll, pool_active, proxy, kind, owner,
                    calls, stats, pstart, pshut, lost, nextPid, nextId, crashed,
                    worker >>

SpecIds == InitIds /\ [][GetUniqueID]_vars

\* A pool that has grown to max_children idle workers, some of which have served
\* max_requests_per_child requests: rolling maintenance and restart requests,
\* ticks that maintain, recycle, restart, add and remove workers.
ConfigChurn ==
    [BaseConfig EXCEPT !.min_children = 1, !.max_children = 3,
                       !.max_requests_per_child = 1]

InitChurn ==
    \E cfg \in {ConfigChurn, ConfigRecycleWide} :
    \E served \in [1..cfg.max_children -> 0..cfg.max_requests_per_child] :
        /\ config = cfg
        /\ workers = 1..cfg.max_children
        /\ maint_roll = {}
        /\ pool_active = 0
        /\ proxy = [p \in 1..MaxKids |->
                      IF p <= cfg.max_children
                      THEN [NewProxy(cfg, IF p <= cfg.min_children THEN "pool" ELSE "none")
                              EXCEPT !.state = "active", !.started = TRUE, !.cb_calls = 1,
                                     !.num_requests_served = served[p]]
                      ELSE NoProxy]
        /\ kind = [i \in Ids |-> "none"]
        /\ owner = [i \in Ids |-> 0]
        /\ calls = [i \in Ids |-> << >>]
        /\ stats = [i \in Ids |-> 0]
        /\ pstart = [phase |-> "done", todo |-> 0, running |-> 0]
        /\ pshut = "no"
        /\ lost = {}
        /\ nextPid = cfg.max_children + 1
        /\ nextId = 1
        /\ crashed = FALSE
        /\ uid = NoIds
        /\ worker = NewWorker

NextChurn ==
    \/ RequestMaint \/ RequestRestart \/ Tick \/ ChildMaintComplete
    \/ ChildStartupComplete \/ ChildQuit \/ KillTimeout

SpecChurn == InitChurn /\ [][NextChurn]_vars

\* Auto-scaling under load: a started pool that may grow, requests that make
\* its workers busy and are answered, ticks, workers that start and exit.
ConfigSpare ==
    [BaseConfig EXCEPT !.max_children = 3, !.child_headroom_pct = 100,
                       !.child_busy_factor = 2]

InitLoad == \E cfg \in {BaseConfig, ConfigSpare} : Started(cfg, cfg.min_children, MaxKids)

NextLoad ==
    \/ Delegate \/ ChildResponse \/ StatDone \/ Tick \/ ChildStartupComplete
    \/ ChildQuit \/ KillTimeout

SpecLoad == InitLoad /\ [][NextLoad]_vars

\* Startup of a pool whose workers have a startup timeout.  The timers call
\* child.kill('SIGKILL'); when the signal cannot be delivered the child emits
\* 'error' and lives on (it may send frames, and its 'exit' event may follow).
ConfigSlow == [ConfigDuo EXCEPT !.startup_timeout_sec = 1]

ChildKillError ==
    /\ ~crashed
    /\ \E p \in Pids :
          /\ Running(p)
          /\ proxy[p].startup_timer \/ proxy[p].kill_armed > 0
          /\ Do(childGone([World EXCEPT !.proxy[p].errored = TRUE], p))

InitStart ==
    /\ config = ConfigSlow
    /\ workers = {}
    /\ maint_roll = {}
    /\ pool_active = 0
    /\ proxy = [p \in 1..MaxKids |-> NoProxy]
    /\ kind = [i \in Ids |-> "none"]
    /\ owner = [i \in Ids |-> 0]
    /\ calls = [i \in Ids |-> << >>]
    /\ stats = [i \in Ids |-> 0]
    /\ pstart = [phase |-> "init", todo |-> 0, running |-> 0]
    /\ pshut = "no"
    /\ lost = {}
    /\ nextPid = 1
    /\ nextId = 1
    /\ crashed = FALSE
    /\ uid = NoIds
    /\ worker = NewWorker

NextStart ==
    \/ PoolStartup \/ ChildStartupComplete \/ StartupTimeout \/ KillTimeout
    \/ ChildKillError \/ ChildExit \/ Tick \/ PoolShutdown \/ PoolShutdownDone

SpecStart == InitStart /\ [][NextStart]_vars

\* The startup timer only sends SIGKILL: the 'data' handler stays installed, so a
\* startup_complete frame the child wrote before it was killed, decoded after
\* the timer has fired, is handled like any other.
ChildStartupLate ==
    /\ ~crashed
    /\ \E p \in Pids :
          /\ proxy[p].child = "killed" /\ ~proxy[p].started
          /\ Do(onStartupComplete(World, p))

NextBoot ==
    \/ PoolStartup \/ ChildStartupComplete \/ ChildStartupLate \/ StartupTimeout
    \/ ChildQuit \/ Tick

SpecBoot == InitStart /\ [][NextBoot]_vars

\* The child process on its own: the commands the parent writes to it, the user
\* handler calling its callback, req.sse.send and req.sse.end, the request
\* timers, the user maint hook calling back, the process exiting.  Unless the
\* pipe to the parent is modelled, the frames written are read as they come.
DoWorker(k) ==
    /\ worker' = IF k.piped THEN k ELSE [k EXCEPT !.out = << >>]
    /\ UNCHANGED << config, workers, maint_roll, pool_active, proxy, kind, owner,
                    calls, stats, pstart, pshut, lost, nextPid, nextId, crashed, uid >>

RecvRequest ==
    /\ ~worker.exited /\ worker.shutdown_cmds = 0
    /\ \E id \in 1..MaxReqs : \E cmd \in {"request", "custom"} :
          /\ worker.reqs[id].st = "none"
          /\ \A i \in 1..(id - 1) : worker.reqs[i].st # "none"
          /\ DoWorker(workerHandleRequest(worker, id, cmd, config.request_timeout_sec))

RecvMaint ==
    /\ ~worker.exited /\ worker.shutdown_cmds = 0 /\ worker.maint_cmds < MaxCmds
    /\ \E data \in {"true", "data"} :
          DoWorker(workerMaint([worker EXCEPT !.maint_cmds = @ + 1], data))

RecvShutdown ==
    /\ ~worker.exited /\ worker.shutdown_cmds = 0
    /\ DoWorker(workerShutdown([worker EXCEPT !.shutdown_cmds = @ + 1]))

HandlerDone ==
    /\ ~worker.exited
    /\ \E id \in Ids :
          /\ worker.reqs[id].st = "open" /\ worker.reqs[id].dones = 0
          /\ DoWorker(handleResponse(worker, id))

SseSend ==
    /\ ~worker.exited
    /\ \E id \in Ids :
          /\ worker.reqs[id].st = "open" /\ ~worker.reqs[id].sse
          /\ DoWorker(sseSend(worker, id))

SseEnd ==
    /\ ~worker.exited
    /\ \E id \in Ids :
          /\ worker.reqs[id].st = "open" /\ worker.reqs[id].ends < MaxEnds
          /\ DoWorker(sseEnd(worker, id))

WorkerTimer ==
    /\ ~worker.exited
    /\ \E id \in Ids : worker.reqs[id].timer /\ DoWorker(workerTimeout(worker, id))

\* the callback of the user maint hook: sendCommand('maint_complete')
MaintHookDone ==
    /\ ~worker.exited /\ worker.maint_done < Len(worker.maints)
    /\ DoWorker(write([worker EXCEPT !.maint_done = @ + 1], "maint_complete", 0))

\* process.exit(0)
WorkerExit ==
    /\ worker.exiting /\ ~worker.exited
    /\ DoWorker([worker EXCEPT !.exited = TRUE])

InitWorker == Started(ConfigCap, 1, MaxKids)

NextWorker ==
    \/ RecvRequest \/ RecvMaint \/ RecvShutdown \/ HandlerDone \/ SseSend \/ SseEnd
    \/ WorkerTimer \/ MaintHookDone \/ WorkerExit

SpecWorker == InitWorker /\ [][NextWorker]_vars

\* Parent and child together, for the worker of pid 1: requests are dispatched
\* to its proxy and read by the child in the order written, the child's frames
\* wait in the pipe until the decodeStream of the proxy emits them, the pool is
\* shut down, the child exits or is killed.
TheWorker == 1

DoWire(w, k) ==
    /\ w.nextPid <= Cardinality(Pids) + 1
    /\ \E f \in {Forget(w)} : Set(f)
    /\ uid' = uid
    /\ worker' = k

\* the requests written to the child's stdin
Written == {id \in Ids : owner[id] = TheWorker /\ id \notin lost}

WireRequest ==
    /\ ~worker.exited
    /\ \E id \in Written :
          /\ worker.reqs[id].st = "none"
          /\ \A i \in Written : i < id => worker.reqs[i].st # "none"
          /\ DoWorker(workerHandleRequest(worker, id, kind[id], config.request_timeout_sec))

\* the shutdown command, read after every request written before it
WireShutdown ==
    /\ ~worker.exited /\ worker.shutdown_cmds = 0
    /\ proxy[TheWorker].ended
    /\ \A i \in Written : worker.reqs[i].st # "none"
    /\ DoWorker(workerShutdown([worker EXCEPT !.shutdown_cmds = @ + 1]))

\* the decodeStream 'data' handler of the proxy for the next frame of the child:
\* a frame whose cmd the switch of handleChildResponse does not know ('sse') is
\* handled as a response, with data.status || "200 OK"
Decode ==
    /\ ~crashed /\ worker.out # << >>
    /\ LET frame == Head(worker.out)
           k == [worker EXCEPT !.out = Tail(@)]
       IN  IF frame.cmd = "maint_complete"
           THEN DoWire(onMaintComplete(World, TheWorker), k)
           ELSE DoWire(handleChildResponse(World, TheWorker, frame.id, "other", S200), k)

\* SIGKILL of the kill timer reaches the child
WireKilled ==
    /\ proxy[TheWorker].child = "killed" /\ ~worker.exited
    /\ DoWorker([worker EXCEPT !.exited = TRUE])

\* the child 'exit' event.  It is emitted when the process has ended, while the
\* stdio streams may still be open: frames the child wrote may be decoded later.
WireExit ==
    /\ ~crashed /\ worker.exited
    /\ proxy[TheWorker].child \in {"running", "killed"}
    /\ Do(childGone([World EXCEPT !.proxy[TheWorker].child = "exited"], TheWorker))

InitWire ==
    StartedWith(BaseConfig, 1, MaxPids, [NewWorker EXCEPT !.piped = TRUE])

NextWire ==
    \/ Delegate \/ WireRequest \/ HandlerDone \/ SseSend \/ Decode
    \/ PoolShutdown \/ WireShutdown \/ WorkerExit \/ KillTimeout \/ WireKilled
    \/ WireExit

SpecWire == InitWire /\ [][NextWire]_vars

\* ------------------------------------------------------------------ claims

RECURSIVE SumActive(_)
SumActive(S) ==
    IF S = {} THEN 0
    ELSE LET p == CHOOSE q \in S : TRUE
         IN  proxy[p].num_active_requests + SumActive(S \ {p})

Issued(id) == id < nextId
InState(ss) == {p \in workers : proxy[p].state \in ss}

\* C1: the callback of every accepted request is invoked exactly once: never
\* twice, and at least once when the child it was sent to has exited.
C1_ExactlyOnce ==
    \A id \in Ids :
        /\ Len(calls[id]) <= 1
        /\ (owner[id] # 0 /\ proxy[owner[id]].child = "exited") => Len(calls[id]) = 1

\* C2: when the child exits or errors, every request pending on its proxy, web
\* or custom, is answered 500, the pending table is emptied, the counters are
\* released and the proxy leaves the pid map.
C2_AbortOnExit ==
    [][\A p \in Pids :
         (proxy[p].child \in {"running", "killed"} /\ proxy'[p].child = "exited")
         => /\ \A id \in proxy[p].requests : calls'[id] = Append(calls[id], S500)
            /\ proxy'[p].requests = {}
            /\ proxy'[p].num_active_requests = 0
            /\ pool_active' = pool_active - Cardinality(proxy[p].requests)
            /\ p \notin workers']_vars

\* C3: for every proxy, num_active_requests is the size of its pending table.
C3_ProxyCounter ==
    \A p \in Pids : proxy[p].num_active_requests = Cardinality(proxy[p].requests)

C3_Witness ==
    \E p \in Pids : /\ proxy[p].requests # {}
                     /\ proxy[p].num_requests_served > 0
                     /\ \E q \in Pids \ workers : proxy[q].child = "exited"

\* C4: Pool.num_active_requests is the sum of num_active_requests over the
\* proxies in the pid map, whatever their state.
C4_PoolSum == pool_active = SumActive(workers)

C4_Witness ==
    /\ pool_active > 0
    /\ \E p \in workers : proxy[p].state = "shutdown" /\ proxy[p].requests # {}
    /\ \E q \in Pids \ workers : proxy[q].child = "exited"

\* C5 as claimed: Pool.num_active_requests is the sum over the proxies in
\* state active or maint only.
C5_ServingSum == pool_active = SumActive(InState({"active", "maint"}))

\* C5 as amended: Pool.num_active_requests is the sum over the proxies in state
\* active, maint or shutdown (a worker shut down with requests in flight still
\* counts them), and a proxy in startup has no active request.
C5_NotStartupSum ==
    /\ pool_active = SumActive(InState({"active", "maint", "shutdown"}))
    /\ \A p \in InState({"startup"}) : proxy[p].num_active_requests = 0

C5_Witness ==
    /\ \E p \in workers : proxy[p].state = "shutdown" /\ proxy[p].requests # {}
    /\ \E p \in workers : proxy[p].state = "active" /\ proxy[p].requests # {}

\* C6: whenever the callback of every request issued so far has been invoked,
\* the pool's counter and every proxy's counter are 0.
C6_NoLeak ==
    (\A id \in Ids : Issued(id) => Len(calls[id]) >= 1)
    => /\ pool_active = 0
       /\ \A p \in Pids : proxy[p].num_active_requests = 0

\* C7: with the pool at max_concurrent_requests (> 0), Pool.delegateRequest
\* answers 429 at once and changes nothing else; so the pool's counter never
\* exceeds max_concurrent_requests.
C7_Cap ==
    /\ [](config.max_concurrent_requests > 0
             => pool_active <= config.max_concurrent_requests)
    /\ [][(/\ nextId' = nextId + 1
            /\ config.max_concurrent_requests > 0
            /\ pool_active >= config.max_concurrent_requests)
           => /\ calls'[nextId] = << S429 >>
              /\ owner'[nextId] = 0
              /\ UNCHANGED << config, workers, maint_roll, pool_active, proxy,
                              owner, stats, lost, nextPid, pstart, pshut >>]_vars

C7_Witness ==
    /\ pool_active = config.max_concurrent_requests
    /\ \E id \in Ids : calls[id] = << S429 >>

Active == InState({"active"})

Dispatched(p) ==
    /\ owner'[nextId] = p
    /\ p \in Active
    /\ \A q \in Active : proxy[p].num_active_requests <= proxy[q].num_active_requests

Unavailable ==
    /\ calls'[nextId] = << S503 >>
    /\ owner'[nextId] = 0
    /\ UNCHANGED << workers, pool_active, proxy, stats >>

\* C8 as claimed: a dispatched request lands on an active proxy of minimal
\* load, and when no proxy is active the callback gets 503 and nothing changes.
C8_LeastLoaded ==
    [][nextId' = nextId + 1
       => /\ owner'[nextId] # 0 => Dispatched(owner'[nextId])
          /\ Active = {} => Unavailable]_vars

\* C8 as amended: ... and when no proxy is active, and the pool is not at its
\* max_concurrent_requests (the request is then answered 429), the callback
\* gets 503 and nothing changes.
C8_LeastLoadedBelowCap ==
    [][nextId' = nextId + 1
       => /\ owner'[nextId] # 0 => Dispatched(owner'[nextId])
          /\ (Active = {} /\ ~TooManyRequests(World)) => Unavailable]_vars

C8_Witness ==
    /\ \E id \in Ids : calls[id] = << S503 >>
    /\ \E p \in workers : proxy[p].state = "active" /\ proxy[p].requests # {}
    /\ \E p \in workers : proxy[p].state \in {"maint", "shutdown"}

\* C9: in a burst sent to n idle active workers, with no completion in between,
\* the loads of any two workers differ by at most 1, and after k*n requests
\* every worker holds exactly k.
C9_Balanced ==
    LET n == Cardinality(workers)
        sent == nextId - 1
    IN  /\ \A p, q \in workers :
              proxy[p].num_active_requests - proxy[q].num_active_requests <= 1
        /\ sent % n = 0
              => \A p \in workers : proxy[p].num_active_requests = sent \div n

C9_Witness ==
    /\ Cardinality(workers) = 2
    /\ nextId - 1 = 4
    /\ \A p \in workers : proxy[p].num_active_requests = 2

TimedOut(id) == Len(calls[id]) >= 1 /\ calls[id][1] = S504

\* C10: a request whose timeout fires is answered 504, its entry removed and
\* both counters decremented; a response the child sends for it afterwards is
\* discarded: no callback, no counter changes.
C10_Timeout ==
    /\ [][\A id \in Ids :
             (~TimedOut(id) /\ TimedOut(id)')
             => LET p == owner[id]
                IN  /\ id \in proxy[p].timers
                    /\ calls'[id] = << S504 >>
                    /\ id \notin proxy'[p].requests
                    /\ proxy'[p].num_active_requests = proxy[p].num_active_requests - 1
                    /\ pool_active' = pool_active - 1]_vars
    /\ [](\A id \in Ids :
             TimedOut(id)
             => /\ calls[id] = << S504 >>
                /\ \A type \in {"other", "file"} :
                      handleChildResponse(World, owner[id], id, type, S200) = World)

C10_Witness ==
    \E id \in Ids : TimedOut(id) /\ proxy[owner[id]].child = "running"

\* the state changes of startup -> active -> (active <-> maint)* -> shutdown
Lifecycle ==
    { << "none", "startup" >>, << "startup", "active" >>, << "startup", "shutdown" >>,
      << "active", "maint" >>, << "maint", "active" >>,
      << "active", "shutdown" >>, << "maint", "shutdown" >> }

\* C11: a proxy's state only follows startup -> active -> (active <-> maint)* ->
\* shutdown: a proxy in shutdown stays in shutdown, and active is entered only
\* from startup or maint, whatever frames of the child were in flight.
C11_Lifecycle ==
    [][\A p \in Pids :
         proxy'[p].state # proxy[p].state
         => << proxy[p].state, proxy'[p].state >> \in Lifecycle]_vars

\* C12: once shutdown() has been called on a proxy, no entry is added to its
\* pending table for as long as it is in the pool.
C12_NoDispatchAfterShutdown ==
    [][\A p \in Pids :
         (proxy[p].ended /\ p \in workers)
         => proxy'[p].requests \subseteq proxy[p].requests]_vars

\* the state counts right after the recycle / rolling restart decisions of a tick
\* that runs now
AfterDecisions == getStates(tickDecisions(World).w)

Ticking == ~crashed /\ pstart.phase # "init" /\ pshut # "done"

\* C14 as claimed: right after the restart decisions of any tick, the proxies in
\* startup plus those in shutdown are at most max_concurrent_launches.
C14_Restarting ==
    Ticking => AfterDecisions.startup + AfterDecisions.shutdown
                 <= config.max_concurrent_launches

\* C14 as amended: the restart decisions of a tick shut down at most one worker,
\* and only when the proxies in startup plus those in shutdown were fewer than
\* max_concurrent_launches when the tick began; so these decisions never take
\* that sum above max_concurrent_launches (auto-scaling, maintenance timeouts and
\* Pool.shutdown do).
C14_RestartDecisions ==
    Ticking =>
        LET before == getStates(World)
            after == AfterDecisions
        IN  /\ after.startup = before.startup
            /\ after.shutdown <= before.shutdown + 1
            /\ after.shutdown > before.shutdown
                 => /\ before.startup + before.shutdown < config.max_concurrent_launches
                    /\ after.startup + after.shutdown <= config.max_concurrent_launches

C14_Witness ==
    /\ Ticking
    /\ AfterDecisions.shutdown = getStates(World).shutdown + 1
    /\ \E p \in workers : proxy[p].state = "active" /\ proxy[p].request_restart

\* C15: the proxies in startup state are never more than max_concurrent_launches.
C15_Launches == getStates(World).startup <= config.max_concurrent_launches

\* C16: the proxies in the pid map, whatever their state, are never more than
\* max_children.
C16_MaxChildren == Cardinality(workers) <= config.max_children

\* C13: the proxies in maint state are never more than max_concurrent_maint.
C13_MaintCap == getStates(World).maint <= config.max_concurrent_maint

C13_Witness ==
    /\ getStates(World).maint = config.max_concurrent_maint
    /\ getStates(World).active > 1
    /\ \E p \in workers : proxy[p].state = "active" /\ proxy[p].request_maint # "none"
    /\ \E p \in workers : proxy[p].state = "active" /\ Len(proxy[p].maints) > 0

\* fewer than min_children workers in startup or active state, and fewer than
\* max_children workers not shutting down
Deficit ==
    /\ getStates(World).startup + getStates(World).active < config.min_children
    /\ Cardinality(workers) - getStates(World).shutdown < config.max_children

\* C17: whenever fewer than min_children workers are in startup or active state
\* and fewer than max_children are not shutting down, a tick adds one worker if
\* fewer than max_concurrent_launches are starting (and none otherwise); with
\* fair ticks and children that start, min_children workers get active again.
C17_MinChildren ==
    /\ [][(Tick /\ Deficit)
           => IF getStates(World).startup < config.max_concurrent_launches
              THEN /\ nextPid' = nextPid + 1
                   /\ workers' = workers \cup {nextPid}
                   /\ proxy'[nextPid].state = "startup"
              ELSE nextPid' = nextPid]_vars
    /\ Deficit ~> (getStates(World).active >= config.min_children)

\* min_children workers are active again, two of them replacements of crashed ones
C17_Witness ==
    /\ getStates(World).active >= config.min_children
    /\ Cardinality({p \in workers : p > config.min_children
                                     /\ proxy[p].state = "active"}) >= 2

\* C18: once Pool.shutdown was called (removePool), its callback is eventually
\* invoked, and then the pid map is empty and no child of the pool is alive,
\* also while ticks keep running on the pool.
C18_PoolRemoved ==
    /\ [](pshut = "done" => workers = {} /\ \A p \in Pids : ~Running(p))
    /\ (pshut = "draining") ~> (pshut = "done")

\* the workers the pool was started with
Old == 1..config.min_children

\* C19: after requestRestart() on a pool whose workers are all active, every
\* worker of that time is eventually shut down and removed (its child gone), and
\* at least min_children workers, none of them an old one, are active; at least
\* one worker is active at every moment.
C19_RollingRestart ==
    /\ [](getStates(World).active >= 1)
    /\ (\A p \in Old : p \in workers /\ proxy[p].request_restart)
         ~> /\ workers \cap Old = {}
            /\ \A p \in Old : ~Running(p)
            /\ getStates(World).active >= config.min_children

\* the last old worker is shutting down while a replacement is already active
C19_Witness ==
    /\ \E p \in Old : p \in workers /\ proxy[p].state = "shutdown"
                        /\ Old \cap workers = {p}
    /\ \E p \in workers \ Old : proxy[p].state = "active"

\* requestMaint(data) has just flagged every worker of the pool
Flagged(d) == \A p \in Old : p \in workers /\ proxy[p].request_maint = OrTrue(d)

\* every worker of that time is active, was sent the maint command once, with
\* the payload, and the 'maint' event was emitted once for it
Maintained(d) ==
    \A p \in Old : /\ p \in workers /\ proxy[p].state = "active"
                    /\ proxy[p].maints = << OrTrue(d) >>
                    /\ proxy[p].maint_events = 1

\* no worker is sent the maint command, or gets the 'maint' event, twice
AtMostOnce == \A p \in Old : Len(proxy[p].maints) <= 1 /\ proxy[p].maint_events <= 1

Worn(p) ==
    /\ p \in workers /\ proxy[p].state = "active"
    /\ proxy[p].max_requests_per_child > 0
    /\ proxy[p].num_requests_served >= proxy[p].max_requests_per_child

\* the events the tick emits in the current state
TickEvents == {tick(World).events[i] : i \in 1..Len(tick(World).events)}

\* C21: every active worker that has served max_requests_per_child requests is
\* eventually shut down by a tick, which emits 'restart' for it, and removed;
\* the pool ends with min_children active workers, none of them worn.
C21_Recycle ==
    /\ [][\A p \in Old : (Tick /\ Worn(p) /\ proxy'[p].state = "shutdown")
                            => [event |-> "restart", cmd |-> "", pid |-> p]
                                  \in TickEvents]_vars
    /\ \A p \in 1..MaxKids : Worn(p) ~> (p \notin workers /\ ~Running(p))
    /\ (\E p \in 1..MaxKids : Worn(p))
          ~> /\ \A p \in 1..MaxKids : ~Worn(p)
             /\ getStates(World).active = config.min_children
             /\ Cardinality(workers) = config.min_children

\* both workers of the pool were worn and both were replaced
C21_Witness ==
    /\ workers \cap Old = {}
    /\ getStates(World).active = config.min_children
    /\ \A p \in Old : ~Running(p)

\* C22: no proxy ever serves more requests than its max_requests_per_child
\* (when that is > 0).
C22_MaxServed ==
    \A p \in Pids :
        proxy[p].max_requests_per_child > 0
            => proxy[p].num_requests_served <= proxy[p].max_requests_per_child

\* C23: requestMaint and requestRestart calls made while one worker is active
\* have no effect: when all calls are such calls, no tick ever puts a worker
\* into maintenance or restarts one (there is no auto_maint and no
\* max_requests_per_child in these pools).
C23_NoEffect ==
    [][Tick => \A e \in TickEvents : e.event \notin {"maint", "restart"}]_vars

\* C24: a sendMessage call delivers one message to every child whose proxy is
\* in startup, active or maint state, and changes no proxy's state or request
\* counters and not the pool's counter.
C24_SendMessage ==
    [][SendMessage =>
         /\ \A p \in workers :
               /\ proxy[p].state \in {"startup", "active", "maint"}
                     => proxy'[p].messages = proxy[p].messages + 1
               /\ proxy'[p].state = proxy[p].state
               /\ proxy'[p].num_active_requests = proxy[p].num_active_requests
               /\ proxy'[p].num_requests_served = proxy[p].num_requests_served
         /\ pool_active' = pool_active /\ workers' = workers]_vars

\* C25: when Pool.startup calls back without error, min_children proxies were
\* launched by it and each has sent startup_complete; if none of their children
\* has exited, they are the workers of the pool and all are active.  When a
\* child launched by Pool.startup exits before its startup_complete while the
\* startup is running, the callback gets an error.
C25_Startup ==
    /\ [][(pstart.phase # "done" /\ pstart'.phase = "done") =>
            LET kids == {p \in Pids : proxy'[p].cb = "pool"}
            IN  /\ Cardinality(kids) = config.min_children
                /\ \A p \in kids :
                      /\ proxy'[p].cb_calls = 1
                      /\ proxy'[p].child = "running" => proxy'[p].started
                /\ (\A p \in kids : proxy'[p].child = "running")
                      => /\ workers' = kids
                         /\ \A p \in kids : proxy'[p].state = "active"]_vars
    /\ [][\A p \in Pids :
            (/\ pstart.phase = "running" /\ proxy[p].cb = "pool"
             /\ ~proxy[p].started /\ proxy[p].child # "exited"
             /\ proxy'[p].child = "exited")
                => pstart'.phase = "failed"]_vars

\* C26: two ids returned fewer than 36^2 calls apart are distinct, whatever the
\* clock values; two ids are equal only if they were generated in the same
\* millisecond and a multiple of 36^2 calls apart.
C26_UniqueIds ==
    uid.calls > 0 =>
        /\ uid.calls < CounterWrap => uid.last # uid.first
        /\ uid.last = uid.first => /\ uid.last_ms = uid.first_ms
                                   /\ uid.calls % CounterWrap = 0

\* the same id again, 36^2 calls later in the same millisecond
C26_Witness == uid.calls = CounterWrap /\ uid.last = uid.first

\* C27: a tick on a pool with an active worker leaves at least one worker
\* active.
C27_KeepsOne ==
    [][(Tick /\ getStates(World).active >= 1)
          => Cardinality({p \in workers' : proxy'[p].state = "active"}) >= 1]_vars

\* one worker is left active next to one in maintenance and one shutting down
C27_Witness ==
    /\ getStates(World).active = 1
    /\ getStates(World).maint >= 1
    /\ getStates(World).shutdown >= 1

\* the pool when the tick gets to its auto-scaling block
Scaling == tickDecisions(World).w

ScaleEvents == SelectSeq(tick(World).events, LAMBDA e : e.event = "autoscale")

\* every active worker is busy, none is starting up, a launch is allowed and
\* fewer than max_children workers are outside the shutdown state
AllBusy ==
    /\ \A p \in workers :
          proxy[p].state = "active" =>
              proxy[p].num_active_requests >= config.child_busy_factor
    /\ getStates(World).startup = 0
    /\ config.max_concurrent_launches >= 1
    /\ Cardinality({p \in workers : proxy[p].state # "shutdown"}) < config.max_children

\* C29: when every active worker is busy, none is in startup, a launch is
\* allowed and the pool is below max_children, a tick adds exactly one worker
\* and emits exactly one 'autoscale' event, {cmd: 'add', pid: new pid}; no tick
\* performs more than one auto-scale action.
C29_ScaleUp ==
    [][Tick =>
         /\ Len(ScaleEvents) <= 1
         /\ AllBusy =>
               /\ ScaleEvents = << [event |-> "autoscale", cmd |-> "add", pid |-> nextPid] >>
               /\ nextPid \notin workers
               /\ workers' = workers \cup {nextPid}
               /\ proxy'[nextPid].state = "startup"]_vars

\* a worker added by auto-scaling starts up while every active worker is busy
C29_Witness ==
    /\ \E p \in workers : proxy[p].state = "startup" /\ proxy[p].cb = "none"
    /\ \E p \in workers : proxy[p].state = "active"
    /\ \A p \in workers :
          proxy[p].state = "active" =>
              proxy[p].num_active_requests >= config.child_busy_factor

\* C30: with min_children equal to max_children no tick removes a worker through
\* auto-scaling, and no tick adds one while the pool holds min_children workers
\* that are not shutting down: a worker is added only to replace one that has
\* exited or is shutting down.
C30_Disabled ==
    [][(Tick /\ config.min_children = config.max_children) =>
         \A i \in 1..Len(ScaleEvents) :
             /\ ScaleEvents[i].cmd # "remove"
             /\ ScaleEvents[i].cmd = "add" =>
                   Cardinality({p \in Scaling.workers : Scaling.proxy[p].state # "shutdown"})
                       < config.min_children]_vars

\* C31: the callback passed to WorkerProxy.startup is never invoked twice for a
\* proxy, and it has been invoked once when the proxy has started or its child
\* is gone.
C31_CallbackOnce ==
    \A p \in Pids :
        /\ proxy[p].cb_calls <= 1
        /\ (proxy[p].state # "none" /\ (proxy[p].started \/ proxy[p].child = "exited"))
              => proxy[p].cb_calls = 1

\* C32: with maint_timeout_sec > 0 the maint timer, when it fires, calls
\* shutdown() on the proxy, which moves to shutdown; a maint_complete that
\* arrives while the timer is armed cancels it and returns the proxy to active,
\* and no maint timer is pending on an active proxy.
C32_MaintTimer ==
    [][\A p \in Pids :
         /\ (/\ proxy[p].maint_timer /\ proxy[p].state = "maint"
             /\ proxy'[p].child = "running"
             /\ proxy'[p].maint_owed < proxy[p].maint_owed)
               => proxy'[p].state = "active" /\ ~proxy'[p].maint_timer
         /\ (/\ proxy[p].maint_timer /\ ~proxy'[p].maint_timer
             /\ proxy'[p].child = "running"
             /\ proxy'[p].maint_owed = proxy[p].maint_owed)
               => /\ proxy'[p].state = "shutdown" /\ proxy'[p].ended
                  /\ proxy'[p].kill_armed = proxy[p].kill_armed + 1
         /\ proxy'[p].state = "active" => ~proxy'[p].maint_timer]_vars

\* a proxy is active again after a maintenance that completed in time, while
\* another one was shut down by its maint timer
C32_Witness ==
    /\ config.maint_timeout_sec > 0
    /\ \E p \in workers : /\ proxy[p].state = "active" /\ Len(proxy[p].maints) > 0
                            /\ ~proxy[p].ended /\ ~proxy[p].maint_timer
    /\ \E p \in workers : /\ proxy[p].state = "shutdown" /\ proxy[p].maint_owed > 0
                            /\ proxy[p].ended /\ ~proxy[p].maint_timer

\* C33: once the child of a proxy has exited, no kill timer armed by shutdown()
\* for that proxy is left to fire, however often shutdown() was called on it.
C33_KillTimer ==
    \A p \in Pids : proxy[p].child = "exited" => proxy[p].kill_armed = 0

\* C34: with startup_timeout_sec > 0 the startup timer, when it fires before
\* startup_complete, kills the child; the killed child's proxy never becomes
\* active; its exit removes the proxy from the pool and calls the startup
\* callback with an error, which fails a Pool.startup that was waiting on it.
C34_StartupTimeout ==
    [][\A p \in Pids :
         /\ (/\ proxy[p].startup_timer /\ ~proxy'[p].startup_timer
             /\ ~proxy'[p].started /\ proxy'[p].child # "exited")
               => proxy'[p].child = "killed"
         /\ (proxy[p].child = "killed" /\ ~proxy[p].started)
               => ~proxy'[p].started /\ proxy'[p].state # "active"
         /\ (/\ proxy[p].child = "killed" /\ ~proxy[p].started
             /\ proxy'[p].child = "exited")
               => /\ p \notin workers'
                  /\ proxy'[p].cb_calls = proxy[p].cb_calls + 1
                  /\ (proxy[p].cb = "pool" /\ pstart.phase = "running")
                        => pstart'.phase = "failed"]_vars

\* C37: in the child every request lowers the active-request counter at most
\* once, the counter is never negative, and at most one response frame is
\* written per request.
C37_CountedOnce ==
    /\ worker.num_active_requests >= 0
    /\ \A id \in Ids : worker.reqs[id].decs <= 1 /\ worker.reqs[id].frames <= 1

\* C36: in the child the user maint hook is invoked only when the active-request
\* counter is zero; a maint command received while the counter is not zero is
\* remembered; when the counter next reaches zero the remembered maintenance is
\* run with its payload, unless a shutdown was requested too, which is performed
\* instead.
C36_MaintWhenIdle ==
    [][/\ Len(worker'.maints) > Len(worker.maints)
           => /\ worker'.num_active_requests = 0
              /\ Len(worker'.maints) = Len(worker.maints) + 1
       /\ (worker'.maint_cmds > worker.maint_cmds /\ worker.num_active_requests # 0)
           => /\ worker'.request_maint \in {"true", "data"}
              /\ worker'.maints = worker.maints
       /\ (/\ worker.num_active_requests # 0 /\ worker'.num_active_requests = 0
           /\ worker.request_maint # "false")
           => IF worker.request_shutdown
              THEN worker'.exiting /\ worker'.maints = worker.maints
              ELSE /\ worker'.request_maint = "false"
                   /\ worker'.maints =
                        Append(worker.maints, [data |-> worker.request_maint, active |-> 0])
      ]_vars

\* the child has written its response to request id
Completed(id) == worker.reqs[id].frames > 0

\* C35: a child that was told to shut down starts to exit only when its
\* active-request counter is zero, and a request the child has completed is
\* answered to its caller with the child's response, never with the 500 of an
\* abort.
C35_Drain ==
    [][/\ (worker'.exiting /\ ~worker.exiting) => worker'.num_active_requests = 0
       /\ \A id \in Ids :
             (Completed(id) /\ Len(calls[id]) = 0 /\ Len(calls'[id]) > 0)
                 => calls'[id][1] = S200]_vars

\* C38: an 'sse' frame decoded by the proxy leaves the pending table, the
\* counters, the request timers and the callers' callbacks as they are.
C38_SseOutOfBand ==
    [][(Decode /\ Head(worker.out).cmd = "sse")
         => /\ proxy'[TheWorker].requests = proxy[TheWorker].requests
            /\ proxy'[TheWorker].num_active_requests = proxy[TheWorker].num_active_requests
            /\ proxy'[TheWorker].num_requests_served = proxy[TheWorker].num_requests_served
            /\ proxy'[TheWorker].timers = proxy[TheWorker].timers
            /\ pool_active' = pool_active
            /\ calls' = calls]_vars

\* C39: a tick leaves a worker that is in maint or startup state as it is: no
\* shutdown(), no maint command, its request_maint and request_restart flags
\* unchanged.
C39_HandsOff ==
    [][Tick =>
         \A p \in workers :
             proxy[p].state \in {"maint", "startup"} => proxy'[p] = proxy[p]]_vars

\* a worker in startup or maint state that a tick has focused on keeps the
\* flags requestMaint and requestRestart have set on it
C39_Witness ==
    \E p \in workers :
        /\ proxy[p].state \in {"maint", "startup"}
        /\ p \in maint_roll
        /\ proxy[p].request_restart
        /\ proxy[p].request_maint # "none"

\* C40: the proxies that are not in shutdown state (startup, active and maint
\* together) never number more than max_children.
C40_Capped ==
    LET st == getStates(World)
    IN  st.startup + st.active + st.maint <= config.max_children

====
